---- MODULE Spec2Model ----
(***************************************************************************)
(* Model of src/ilovepdf.py: the ILovePdf session object, its task         *)
(* lifecycle (_nova_tarefa, _adicionar_arquivo, _processar, _download,     *)
(* comprimir) and the HTTP wrapper _realizar_request with its              *)
(* re-authentication path through _novo_token.                             *)
(*                                                                         *)
(* The program is sequential.  One step of the model is one HTTP exchange  *)
(* (requests.request and what the code does with the answer) or the entry  *)
(* of one method up to the request it makes.  The server is the            *)
(* environment: every answer is chosen nondeterministically.               *)
(***************************************************************************)
EXTENDS Integers, Sequences, FiniteSets, TLC

\* ---------------------------------------------------------------- bounds
\* top-level calls made on one session after its construction
MaxOps == 2
\* answers with body status 401 the server gives over the life of a session
Max401 == 2

\* ------------------------------------------------------------- constants
\* body status that _realizar_request treats as an expired token
Unauthorized == 401
\* number of trailing characters comprimir cuts from the input path
ExtLen == 4

\* an attribute the object does not have yet (Python: AttributeError on read)
NoTask == 0
NoUrl == <<>>
NoTool == "unset"
\* a response body without a "status" field
NoStatus == 0
\* no HTTP response at all (connection failure)
NoResponse == 0

\* ------------------------------------------------------------ the world
base_url == <<"https://", "api.ilovepdf.com", "/v1">>

Keys == {"pk"}
Tools == {"compress", "merge"}
Servers == {"s1", "s2"}

\* local paths, as sequences of characters
PathA == <<"a", ".", "p", "d", "f">>
PathB == <<"b", ".", "P", "D", "F">>
PathMissing == <<"n", "o">>
PathOut == <<"o", ".", "p", "d", "f">>
Suffix == <<"_", "c", "o", "m", "p", "r", "e", "s", "s", "o", ".", "p", "d", "f">>
NoPath == <<>>

InputPaths == {PathA, PathB, PathMissing}
OutputArgs == {NoPath, PathOut}

\* contents of the input files present on disk before the session starts
InitialDisk == (PathA :> <<1, 2>>) @@ (PathB :> <<3>>)

\* bodies the download endpoint may answer with
Contents == {<<1, 2>>, <<>>}

\* non-2xx answers: HTTP code and the "status" field of the JSON body
ErrorCodes == {400, 401}
BodyStatuses == {400, Unauthorized, NoStatus}

VARIABLES
    chave_publica,  \* self.chave_publica
    headers,        \* self.headers, a set of <<name, value>> pairs
    arquivos,       \* self.arquivos
    tarefa,         \* self.tarefa
    tarefa_id,      \* self.tarefa_id
    servidor_url,   \* self.servidor_url
    running,        \* the top-level call in progress: "init", "comprimir", "direct", "none", "dead"
    cont,           \* inside comprimir: the method it calls next
    args,           \* comprimir's arquivo_input and arquivo_output
    stack,          \* the active _realizar_request frames, outermost first
    f,              \* the file object of _adicionar_arquivo's with block
    g,              \* the file object of _download's with block
    response,       \* the body _download holds between lines 139 and 143
    disk,           \* the local filesystem
    server,         \* the server's side: the last token, task id and file name it
                    \* handed out, the tool its newest task was started for, and the
                    \* uploads it has accepted since that task was started
    log,            \* the HTTP exchanges of the top-level call in progress (or the last one)
    outcome,        \* how the last top-level call ended
    call,           \* the method the client called last
    nOps,           \* top-level calls made so far
    n401            \* answers with body status 401 so far

vars == <<chave_publica, headers, arquivos, tarefa, tarefa_id, servidor_url,
          running, cont, args, stack, f, g, response, disk, server, log, outcome, call,
          nOps, n401>>

session == <<chave_publica, headers, arquivos, tarefa, tarefa_id, servidor_url>>

\* ------------------------------------------------------- pure helpers
\* a header that does not carry the token just obtained
BearerStale(token) == {<<"Authorization", <<"Bearer", token - 1>>>>}

\* line 199: the headers dict built from a token
Bearer(token) == {<<"Authorization", <<"Bearer", token>>>>}

\* line 31: dict()
EmptyHeaders == {}

\* line 81: f"https://{servidor}/v1"
ServerUrl(servidor) == <<"https://", servidor, "/v1">>

\* a handler that takes every body status for an expired token
IsExpiredAny(status) == status # NoStatus

\* line 180: the body status that sends the request down the re-authentication path
IsExpired(status) == status = Unauthorized

\* an object whose servidor_url always reads as some value
MissingNever(url) == FALSE

\* lines 93, 118, 138: reading self.servidor_url before line 81 ever ran
\* raises AttributeError
Missing(url) == url = NoUrl

\* line 175: raise_for_status raises for a code outside 2xx
IsSuccess(code) == code >= 200 /\ code < 300

\* a default name that keeps the whole input path
DefaultOutputKeep(arquivo_input) == arquivo_input \o Suffix

\* line 51: arquivo_input[:-4] + "_compresso.pdf"
DefaultOutput(arquivo_input) ==
    SubSeq(arquivo_input, 1, Len(arquivo_input) - ExtLen) \o Suffix

\* line 50: `if not arquivo_output`
OutputPath(arquivo_input, arquivo_output) ==
    IF arquivo_output = NoPath THEN DefaultOutput(arquivo_input) ELSE arquivo_output

\* comprimir with the upload and the processing swapped
NextStepSwapped(m) ==
    CASE m = "nova_tarefa" -> "processar"
      [] m = "processar" -> "adicionar"
      [] m = "adicionar" -> "download"
      [] OTHER -> "done"

\* the paths _download is called with: by a client, and by comprimir with
\* the names it derives
ClientOutputs == OutputArgs \ {NoPath}
DownloadPaths == ClientOutputs \cup {DefaultOutput(i) : i \in InputPaths}

\* lines 53-56: the order in which comprimir calls the four methods
NextStep(m) ==
    CASE m = "nova_tarefa" -> "adicionar"
      [] m = "adicionar" -> "processar"
      [] m = "processar" -> "download"
      [] OTHER -> "done"

\* a new task that keeps the previous task's file list
NovaListaKeep(antiga) == antiga

\* line 70: the file list a new task starts with
NovaLista(antiga) == <<>>

\* a record that names the task instead of the uploaded file
RegistroTask(server_filename, arquivo) ==
    [server_filename |-> tarefa_id, filename |-> arquivo]

\* lines 102-105: the record appended after an upload
Registro(server_filename, arquivo) ==
    [server_filename |-> server_filename, filename |-> arquivo]

\* the file object of the with block (line 96) and its absence
Closed == [open |-> FALSE, path |-> NoPath, pos |-> 0]
Open(arquivo) == [open |-> TRUE, path |-> arquivo, pos |-> 0]

\* a block that leaves its file object as it is
ExitLeak(fo) == fo

\* lines 96 and 142: leaving a with block, normally or by an exception,
\* closes its file object
ExitWith(fo) == Closed

\* line 142: open(arquivo_output, "wb") creates the file or empties it
OpenWrite(old) == <<>>

\* line 143: f.write(response.content)
Write(held, content) == held \o content

\* no response body held
NoContent == <<>>

\* requests.request(..., files={"file": f}) reads f from its current position
\* to the end when it builds the body (line 172)
ReadAll(fo) ==
    IF fo.open THEN SubSeq(disk[fo.path], fo.pos + 1, Len(disk[fo.path])) ELSE <<>>
Consumed(fo) ==
    IF fo.open THEN [fo EXCEPT !.pos = Len(disk[fo.path])] ELSE fo

\* the keyword arguments of one _realizar_request call; st is the frame's
\* position: "send" before line 172, "reauth" inside line 182; "write" is
\* _download after its request has returned, inside lines 142-143
Frame(kind, metodo, url, pk, task, tool, files) ==
    [kind |-> kind, metodo |-> metodo, url |-> url, pk |-> pk, task |-> task,
     tool |-> tool, files |-> files, st |-> "send"]

\* lines 193-196
AuthFrame == Frame("auth", "POST", base_url \o <<"/auth">>, chave_publica, NoTask, NoTool, <<>>)
\* lines 73-76
StartFrame(t) == Frame("start", "GET", base_url \o <<"/start/", t>>, "", NoTask, NoTool, <<>>)
\* lines 93-100
UploadFrame == Frame("upload", "POST", servidor_url \o <<"/upload">>, "", tarefa_id, NoTool, <<>>)
\* lines 118-125
ProcessFrame == Frame("process", "POST", servidor_url \o <<"/process">>, "", tarefa_id, tarefa, arquivos)
\* lines 138-139
DownloadFrame ==
    Frame("download", "GET", servidor_url \o <<"/download/", ToString(tarefa_id)>>, "", tarefa_id, NoTool, <<>>)

Top == stack[Len(stack)]
Below == SubSeq(stack, 1, Len(stack) - 1)

\* a request that goes out with the header of the call's first request
SentHeadersFirst(fr) == IF log # <<>> THEN log[1].headers ELSE headers

\* line 172: headers=self.headers, read when the request is made
SentHeaders(fr) == headers

\* line 172: what goes on the wire for frame fr now, and the answer it got
\* (whether raise_for_status accepts it, the body's status field, and what a
\* 2xx body carries)
Exchange(fr, code, status, reply) ==
    [kind |-> fr.kind, depth |-> Len(stack), metodo |-> fr.metodo, url |-> fr.url,
     headers |-> SentHeaders(fr), pk |-> fr.pk, task |-> fr.task, tool |-> fr.tool,
     files |-> fr.files,
     bytes |-> IF fr.kind = "upload" THEN ReadAll(f) ELSE <<>>,
     ok |-> IsSuccess(code), status |-> status, reply |-> reply]

\* the exception a failed exchange raises out of _realizar_request
\* (line 172: ConnectionError; line 180: KeyError; line 186: HTTPError)
Exception(code, status) ==
    IF code = NoResponse THEN "ConnectionError"
    ELSE IF status = NoStatus THEN "KeyError"
    ELSE "HTTPError"

\* ----------------------------------------------------------------- Init
\* the object inside __init__, after line 31 and before line 34 has sent
\* the first auth request
Init ==
    /\ chave_publica \in Keys
    /\ headers = EmptyHeaders
    /\ arquivos = <<>>
    /\ tarefa = NoTool
    /\ tarefa_id = NoTask
    /\ servidor_url = NoUrl
    /\ running = "init"
    /\ cont = "none"
    /\ args = [input |-> NoPath, given |-> NoPath, output |-> NoPath]
    /\ stack = <<Frame("auth", "POST", base_url \o <<"/auth">>, chave_publica, NoTask, NoTool, <<>>)>>
    /\ f = Closed
    /\ g = Closed
    /\ response = NoContent
    /\ disk = InitialDisk
    /\ server = [token |-> 0, task |-> 0, file |-> 0, tool |-> NoTool, held |-> <<>>]
    /\ log = <<>>
    /\ outcome = "pending"
    /\ call = "__init__"
    /\ nOps = 0
    /\ n401 = 0

\* ---------------------------------------------------- calls and returns
\* a method is entered either directly by the client or by comprimir
Direct == running = "none" /\ nOps < MaxOps
InComprimir(m) == running = "comprimir" /\ cont = m /\ stack = <<>>

\* bookkeeping of entering method m
Enter(m) ==
    \/ /\ Direct
       /\ running' = "direct"
       /\ nOps' = nOps + 1
       /\ log' = <<>>
       /\ cont' = "none"
       /\ outcome' = "pending"
       /\ call' = m
    \/ /\ InComprimir(m)
       /\ UNCHANGED <<running, nOps, log, cont, outcome, call>>

\* an exception leaves every frame: no handler catches it, the with block
\* closes the file, the top-level call ends (a failed __init__ leaves no object)
Raise(exc) ==
    /\ stack' = <<>>
    /\ f' = ExitWith(f)
    /\ outcome' = exc
    /\ running' = IF running = "init" THEN "dead" ELSE "none"
    /\ cont' = "none"

\* an exception raised on entry, before any frame exists
RaiseOnEntry(m, exc) ==
    /\ \/ Direct /\ nOps' = nOps + 1 /\ log' = <<>> /\ call' = m
       \/ InComprimir(m) /\ UNCHANGED <<nOps, log, call>>
    /\ Raise(exc)

\* method m returns normally to its caller
Return(m) ==
    IF running = "comprimir" /\ NextStep(m) # "done"
    THEN /\ cont' = NextStep(m)
         /\ UNCHANGED <<running, outcome>>
    ELSE /\ cont' = "none"
         /\ running' = "none"
         /\ outcome' = "ok"

\* ------------------------------------------------------ top-level calls
\* lines 50-52 of comprimir; line 53 is the entry of nova_tarefa below
comprimir(arquivo_input, arquivo_output) ==
    /\ Direct
    /\ running' = "comprimir"
    /\ cont' = "nova_tarefa"
    /\ args' = [input |-> arquivo_input, given |-> arquivo_output,
                output |-> OutputPath(arquivo_input, arquivo_output)]
    /\ nOps' = nOps + 1
    /\ log' = <<>>
    /\ outcome' = "pending"
    /\ call' = "comprimir"
    /\ UNCHANGED <<session, stack, f, g, response, disk, server, n401>>

\* lines 69-76: _nova_tarefa up to its request
nova_tarefa(t) ==
    /\ InComprimir("nova_tarefa") => t = "compress"
    /\ Enter("nova_tarefa")
    /\ arquivos' = NovaLista(arquivos)
    /\ tarefa' = t
    /\ stack' = <<StartFrame(t)>>
    /\ UNCHANGED <<chave_publica, headers, tarefa_id, servidor_url, args, f, g, response, disk, server, n401>>

\* lines 93-99: _adicionar_arquivo up to its request.  Line 93 reads
\* self.servidor_url, line 96 opens the file.
adicionar_arquivo(arquivo) ==
    /\ InComprimir("adicionar") => arquivo = args.input
    /\ IF Missing(servidor_url)
       THEN /\ RaiseOnEntry("adicionar", "AttributeError")
            /\ UNCHANGED args
       ELSE IF arquivo \notin DOMAIN disk
       THEN /\ RaiseOnEntry("adicionar", "FileNotFoundError")
            /\ UNCHANGED args
       ELSE /\ Enter("adicionar")
            /\ f' = Open(arquivo)
            /\ stack' = <<UploadFrame>>
            /\ args' = [args EXCEPT !.input = arquivo]
    /\ UNCHANGED <<session, g, response, disk, server, n401>>

\* lines 118-125: _processar up to its request.  Line 118 reads self.servidor_url.
processar ==
    /\ IF Missing(servidor_url)
       THEN RaiseOnEntry("processar", "AttributeError")
       ELSE /\ Enter("processar")
            /\ stack' = <<ProcessFrame>>
            /\ UNCHANGED f
    /\ UNCHANGED <<session, args, g, response, disk, server, n401>>

\* a _download that opens its output file before it asks for the content
download_open_first(arquivo_output) ==
    /\ InComprimir("download") => arquivo_output = args.output
    /\ Direct => arquivo_output \in ClientOutputs
    /\ IF Missing(servidor_url)
       THEN /\ RaiseOnEntry("download", "AttributeError")
            /\ UNCHANGED <<args, disk>>
       ELSE /\ Enter("download")
            /\ stack' = <<DownloadFrame>>
            /\ args' = [args EXCEPT !.output = arquivo_output]
            /\ disk' = (arquivo_output :> <<>>) @@ disk
            /\ UNCHANGED f
    /\ UNCHANGED <<session, g, response, server, n401>>

\* lines 138-139: _download up to its request
download(arquivo_output) ==
    /\ InComprimir("download") => arquivo_output = args.output
    /\ Direct => arquivo_output \in ClientOutputs
    /\ IF Missing(servidor_url)
       THEN /\ RaiseOnEntry("download", "AttributeError")
            /\ UNCHANGED args
       ELSE /\ Enter("download")
            /\ stack' = <<DownloadFrame>>
            /\ args' = [args EXCEPT !.output = arquivo_output]
            /\ UNCHANGED f
    /\ UNCHANGED <<session, g, response, disk, server, n401>>

\* --------------------------------------------------------- HTTP exchanges
Sending == stack # <<>> /\ Top.st = "send"

\* lines 172-183: a non-2xx answer whose body status is 401.  The handler
\* calls _novo_token (line 182), which builds the auth request (193-196) and
\* calls _realizar_request again.
realizar_request_401(code, status) ==
    /\ Sending
    /\ n401 < Max401
    /\ ~IsSuccess(code)
    /\ code # NoResponse
    /\ IsExpired(status)
    /\ log' = Append(log, Exchange(Top, code, status, <<>>))
    /\ f' = IF Top.kind = "upload" THEN Consumed(f) ELSE f
    /\ stack' = Append(Below, [Top EXCEPT !.st = "reauth"]) \o <<AuthFrame>>
    /\ n401' = n401 + 1
    /\ UNCHANGED <<session, running, cont, args, g, response, disk, server, outcome, call, nOps>>

\* lines 172-186: no answer, or a non-2xx answer that is not an expired
\* token: the exception leaves _realizar_request and every caller
realizar_request_raise(code, status) ==
    /\ Sending
    /\ ~IsSuccess(code)
    /\ code # NoResponse => ~IsExpired(status)
    /\ code = NoResponse => status = NoStatus
    /\ log' = Append(log, Exchange(Top, code, status, <<>>))
    /\ Raise(Exception(code, status))
    /\ UNCHANGED <<session, args, g, response, disk, server, call, nOps, n401>>

\* a retry that forgets the method of the request it repeats
RetryAsGet(fr) == [fr EXCEPT !.st = "send", !.metodo = "GET"]

\* what the handler of lines 182-183 does once _novo_token has returned: the
\* same request again (line 183)
Retry(fr) == [fr EXCEPT !.st = "send"]

\* lines 196-199 after a 2xx answer to the auth request: store the header;
\* then either __init__ ends or the frame that called _novo_token retries
novo_token_ok ==
    /\ Sending
    /\ Top.kind = "auth"
    /\ server' = [server EXCEPT !.token = @ + 1]
    /\ log' = Append(log, Exchange(Top, 200, NoStatus, <<server'.token>>))
    /\ headers' = Bearer(server'.token)
    /\ IF Below = <<>>
       THEN /\ stack' = <<>>
            /\ running' = "none"
            /\ outcome' = "ok"
       ELSE /\ stack' = Append(SubSeq(Below, 1, Len(Below) - 1), Retry(Below[Len(Below)]))
            /\ UNCHANGED <<running, outcome>>
    /\ UNCHANGED <<chave_publica, arquivos, tarefa, tarefa_id, servidor_url,
                   cont, args, f, g, response, disk, call, nOps, n401>>

\* lines 76-81 after a 2xx answer to the start request
nova_tarefa_ok(servidor) ==
    /\ Sending
    /\ Top.kind = "start"
    /\ server' = [server EXCEPT !.task = @ + 1, !.tool = Top.url[5], !.held = <<>>]
    /\ log' = Append(log, Exchange(Top, 200, NoStatus, <<servidor, server'.task>>))
    /\ tarefa_id' = server'.task
    /\ servidor_url' = ServerUrl(servidor)
    /\ stack' = <<>>
    /\ Return("nova_tarefa")
    /\ UNCHANGED <<chave_publica, headers, arquivos, tarefa, args, f, g, response, disk, call, nOps, n401>>

\* lines 98-105 after a 2xx answer to the upload request: the with block
\* closes the file, the record is appended
adicionar_arquivo_ok ==
    /\ Sending
    /\ Top.kind = "upload"
    /\ server' = [server EXCEPT !.file = @ + 1,
                                 !.held = Append(@, [file |-> server.file + 1,
                                                     task |-> Top.task, url |-> Top.url])]
    /\ log' = Append(log, Exchange(Top, 200, NoStatus, <<server'.file>>))
    /\ f' = ExitWith(f)
    /\ arquivos' = Append(arquivos, Registro(server'.file, f.path))
    /\ stack' = <<>>
    /\ Return("adicionar")
    /\ UNCHANGED <<chave_publica, headers, tarefa, tarefa_id, servidor_url, args, g, response, disk, call, nOps, n401>>

\* line 125 after a 2xx answer to the process request
processar_ok ==
    /\ Sending
    /\ Top.kind = "process"
    /\ log' = Append(log, Exchange(Top, 200, NoStatus, <<>>))
    /\ stack' = <<>>
    /\ Return("processar")
    /\ UNCHANGED <<session, args, f, g, response, disk, server, call, nOps, n401>>

\* what the output path holds, nothing if it does not exist
Held(path) == IF path \in DOMAIN disk THEN disk[path] ELSE <<>>

\* lines 139-142 after a 2xx answer to the download request: _realizar_request
\* returns, the output file is opened for writing
download_ok(content) ==
    /\ Sending
    /\ Top.kind = "download"
    /\ log' = Append(log, Exchange(Top, 200, NoStatus, content))
    /\ response' = content
    /\ g' = Open(args.output)
    /\ disk' = (args.output :> OpenWrite(Held(args.output))) @@ disk
    /\ stack' = <<[Top EXCEPT !.st = "write"]>>
    /\ UNCHANGED <<session, running, cont, args, f, server, outcome, call, nOps, n401>>

\* line 143 and the end of the with block: the body is written, the file
\* closed, _download returns
download_write ==
    /\ stack # <<>>
    /\ Top.st = "write"
    /\ disk' = [disk EXCEPT ![g.path] = Write(@, response)]
    /\ g' = ExitWith(g)
    /\ response' = NoContent
    /\ stack' = <<>>
    /\ Return("download")
    /\ UNCHANGED <<session, args, f, server, log, call, nOps, n401>>

Next ==
    \/ \E i \in InputPaths, o \in OutputArgs : comprimir(i, o)
    \/ \E t \in Tools : nova_tarefa(t)
    \/ \E a \in InputPaths : adicionar_arquivo(a)
    \/ processar
    \/ \E o \in DownloadPaths : download(o)
    \/ \E c \in ErrorCodes, s \in BodyStatuses : realizar_request_401(c, s)
    \/ \E c \in ErrorCodes \cup {NoResponse}, s \in BodyStatuses : realizar_request_raise(c, s)
    \/ novo_token_ok
    \/ \E s \in Servers : nova_tarefa_ok(s)
    \/ adicionar_arquivo_ok
    \/ processar_ok
    \/ \E b \in Contents : download_ok(b)
    \/ download_write

Spec == Init /\ [][Next]_vars

\* ================================================================ claims
Kinds == {"auth", "start", "upload", "process", "download"}
Errors == {"HTTPError", "ConnectionError", "KeyError", "AttributeError", "FileNotFoundError"}

\* an exchange answered non-2xx with body status 401
Failed401(e) == ~e.ok /\ e.status = Unauthorized

\* two exchanges made for the same method, URL and keyword arguments
SameRequest(a, b) ==
    /\ a.kind = b.kind /\ a.metodo = b.metodo /\ a.url = b.url /\ a.pk = b.pk
    /\ a.task = b.task /\ a.tool = b.tool /\ a.files = b.files

\* positions in the log of the sends made by the method's own
\* _realizar_request call for a request of kind k
Sends(k) == {i \in DOMAIN log : log[i].depth = 1 /\ log[i].kind = k}

\* C1: a request is sent at most twice by one call (the original and one
\* retry after a re-authentication), whatever the server answers.  Stated for
\* the requests of the task methods; the auth request's own retries are C9.
C1_AtMostOneRetry ==
    \A k \in Kinds \ {"auth"} : Cardinality(Sends(k)) <= 2

\* the exceptions that leave _realizar_request
RequestErrors == {"HTTPError", "ConnectionError", "KeyError"}

\* the method that made exchange e, the last of the log, was handed its answer
Received(e) ==
    /\ e.kind = "auth" => headers = {<<"Authorization", <<"Bearer", e.reply[1]>>>>}
    /\ e.kind = "start" =>
            tarefa_id = e.reply[2] /\ servidor_url = <<"https://", e.reply[1], "/v1">>
    /\ e.kind = "upload" =>
            /\ arquivos # <<>>
            /\ arquivos[Len(arquivos)].server_filename = e.reply[1]
    /\ e.kind = "download" => response = e.reply \/ disk[args.output] = e.reply

\* C2: when a request is answered with body status 401 and the auth call and
\* the retry that follow both succeed, there is exactly one auth call, one
\* retried request equal to the original, no third send by that call, and
\* the caller is not handed an error.
C2_OneReauthOneRetry ==
    \A i \in DOMAIN log :
        (/\ i + 2 <= Len(log)
         /\ Failed401(log[i])
         /\ log[i + 1].ok
         /\ log[i + 2].ok)
        => /\ log[i + 1].kind = "auth"
           /\ log[i + 1].metodo = "POST"
           /\ log[i + 1].url = base_url \o <<"/auth">>
           /\ log[i + 1].depth = log[i].depth + 1
           /\ log[i + 2].depth = log[i].depth
           /\ SameRequest(log[i], log[i + 2])
           /\ i + 3 <= Len(log) =>
                ~(log[i + 3].depth >= log[i].depth /\ log[i + 3].kind = log[i].kind)
           /\ (i + 2 = Len(log) /\ log[i].depth = 1)
                => /\ outcome \notin RequestErrors
                   /\ Received(log[i + 2])

\* a direct upload that met one expired token and then succeeded
C2_Witness ==
    /\ running = "none" /\ outcome = "ok" /\ call = "adicionar"
    /\ Len(log) = 3
    /\ Failed401(log[1]) /\ log[2].ok /\ log[3].ok

\* C3: when the auth endpoint accepts the credentials, construction makes
\* exactly one auth call, POST {base}/auth with the public key, the
\* session's header is Bearer <token> for the token that call returned, and
\* while no re-authentication happens every later request carries it.
C3_ConstructAuthOnce ==
    /\ (call = "__init__" /\ running = "none" /\ n401 = 0)
        => /\ Len(log) = 1
           /\ log[1].kind = "auth" /\ log[1].metodo = "POST"
           /\ log[1].url = base_url \o <<"/auth">>
           /\ log[1].pk = chave_publica
           /\ log[1].ok
           /\ headers = {<<"Authorization", <<"Bearer", log[1].reply[1]>>>>}
           /\ server.token = 1
    /\ (call # "__init__" /\ n401 = 0)
        => /\ headers = {<<"Authorization", <<"Bearer", 1>>>>}
           /\ server.token = 1
           /\ \A i \in DOMAIN log :
                log[i].kind # "auth" /\ log[i].headers = headers

\* a constructed session that later sent a request with the constructor's token
C3_Witness ==
    /\ call = "nova_tarefa" /\ n401 = 0 /\ Len(log) = 1
    /\ log[1].headers = {<<"Authorization", <<"Bearer", 1>>>>}

\* C4: on a session where no start request has ever succeeded, a call of
\* _adicionar_arquivo ends at once with an error, sends nothing and leaves
\* the header and the file list as they were.
C4_AddFileBeforeStart ==
    [][(server.task = 0 /\ \E a \in InputPaths : adicionar_arquivo(a))
        => /\ outcome' = "AttributeError"
           /\ running' = "none"
           /\ stack' = <<>>
           /\ log' = <<>>
           /\ headers' = headers
           /\ arquivos' = arquivos]_vars

\* _adicionar_arquivo was called before any task had been started
C4_Witness ==
    /\ call = "adicionar" /\ server.task = 0 /\ running = "none"
    /\ outcome = "AttributeError" /\ log = <<>>

\* C5: no process request is ever sent with an empty file list.
C5_NoEmptyProcess ==
    \A i \in DOMAIN log : log[i].kind = "process" => log[i].files # <<>>

\* the exchanges made by the methods' own _realizar_request calls, without
\* the auth calls nested in them
IsOwn(e) == e.depth = 1
Own == SelectSeq(log, IsOwn)

Rank(k) ==
    CASE k = "start" -> 1
      [] k = "upload" -> 2
      [] k = "process" -> 3
      [] k = "download" -> 4
      [] OTHER -> 0

\* the state part of C6
C6_Order ==
    call = "comprimir" =>
        /\ Own # <<>> => Own[1].kind = "start"
        /\ \A i \in 1..(Len(Own) - 1) :
            /\ Own[i].ok => Rank(Own[i + 1].kind) = Rank(Own[i].kind) + 1
            /\ ~Own[i].ok => Failed401(Own[i]) /\ Own[i + 1].kind = Own[i].kind
        /\ \A i \in DOMAIN log :
            (~log[i].ok /\ ~Failed401(log[i])) => i = Len(log) /\ outcome \in Errors
        /\ \A i \in DOMAIN Own :
            Own[i].kind \in {"upload", "process", "download"} =>
                \E j \in 1..(i - 1) :
                    /\ Own[j].kind = "start" /\ Own[j].ok
                    /\ Own[i].task = Own[j].reply[2]
                    /\ SubSeq(Own[i].url, 1, 3) = <<"https://", Own[j].reply[1], "/v1">>
                    /\ Own[i].kind = "download" => Own[i].url[5] = ToString(Own[j].reply[2])
        /\ outcome \in Errors =>
            /\ running = "none" /\ stack = <<>>
            /\ \A i \in DOMAIN log : ~(log[i].kind = "download" /\ log[i].ok)

C7_RetrySendsSameBytes ==
    \A i, j \in Sends("upload") : log[i].bytes = log[j].bytes

\* C8: a non-2xx answer whose body status is present and is not 401 ends the
\* call with HTTPError at once: nothing is sent after it, no auth call, no
\* retry, and the header is the one the request was sent with.
C8_OtherErrorsSurface ==
    \A i \in DOMAIN log :
        (~log[i].ok /\ log[i].status \notin {Unauthorized, NoStatus})
        => /\ i = Len(log)
           /\ outcome = "HTTPError"
           /\ running \in {"none", "dead"}
           /\ stack = <<>>
           /\ headers = log[i].headers

\* a process request answered with body status 400
C8_Witness ==
    /\ call = "processar" /\ outcome = "HTTPError" /\ Len(log) = 1
    /\ ~log[1].ok /\ log[1].status = 400

\* C9: an auth request answered non-2xx is the last request of its call,
\* which ends with an error.
C9_AuthNeverRetried ==
    \A i \in DOMAIN log :
        (log[i].kind = "auth" /\ ~log[i].ok) => i = Len(log) /\ outcome \in Errors

\* C10: a new task starts with an empty file list, and the file list of a
\* comprimir call's process request is exactly the one file this call uploaded.
C10_OnlyOwnFile ==
    /\ (stack # <<>> /\ stack[1].kind = "start") => arquivos = <<>>
    /\ call = "comprimir" =>
        \A i \in DOMAIN log :
            log[i].kind = "process" =>
                \E j \in 1..(i - 1) :
                    /\ log[j].kind = "upload" /\ log[j].ok
                    /\ log[i].files =
                        <<[server_filename |-> log[j].reply[1], filename |-> args.input]>>

\* the process request of a comprimir that follows an earlier upload
C10_Witness ==
    /\ call = "comprimir" /\ nOps = 2 /\ server.file = 2
    /\ \E i \in DOMAIN log : log[i].kind = "process"

\* the last exchange of the log
Last == log[Len(log)]

\* a call that ended with _download returning
Downloaded ==
    /\ running = "none" /\ outcome = "ok"
    /\ call \in {"comprimir", "download"}

\* the server answered the download with the bytes it was sent in the
\* upload it accepted during this call
Echoed ==
    \E j \in DOMAIN log :
        /\ log[j].kind = "upload" /\ log[j].ok
        /\ Last.reply = log[j].bytes

\* C11: after a successful download the output path holds exactly the body
\* of the download answer, whatever it held before; so when the server
\* echoes the bytes uploaded in this call, the output file equals the input
\* file.
C11_OutputIsDownloadBody ==
    Downloaded =>
        /\ Last.kind = "download" /\ Last.ok /\ Last.task = tarefa_id
        /\ disk[args.output] = Last.reply
        /\ (call = "comprimir" /\ Echoed) => disk[args.output] = disk[args.input]

\* the first half of C11 alone: the output path holds the download body
C11_BodyWritten ==
    Downloaded =>
        /\ Last.kind = "download" /\ Last.ok /\ Last.task = tarefa_id
        /\ disk[args.output] = Last.reply

\* "_compresso.pdf"
Compresso == <<"_", "c", "o", "m", "p", "r", "e", "s", "s", "o", ".", "p", "d", "f">>

\* the path without its last four characters
CutFour(path) == [i \in 1..(Len(path) - 4) |-> path[i]]

\* C12: the file comprimir opens for the download is the given output path
\* when one is given, and otherwise the input path without its last four
\* characters followed by "_compresso.pdf": "a.pdf" gives "a_compresso.pdf"
\* and "b.PDF" gives "b_compresso.pdf".
C12_DefaultOutputName ==
    (call = "comprimir" /\ g.open) =>
        /\ args.given # <<>> => g.path = args.given
        /\ args.given = <<>> => g.path = CutFour(args.input) \o Compresso
        /\ (args.given = <<>> /\ args.input = <<"a", ".", "p", "d", "f">>)
            => g.path = <<"a">> \o Compresso
        /\ (args.given = <<>> /\ args.input = <<"b", ".", "P", "D", "F">>)
            => g.path = <<"b">> \o Compresso

\* comprimir("b.PDF") without an output path has opened its output file
C12_Witness ==
    /\ call = "comprimir" /\ g.open
    /\ args.given = <<>> /\ args.input = <<"b", ".", "P", "D", "F">>

\* C13: no method returns or raises with a file object open: the upload's
\* file is open only while _adicionar_arquivo is making its request, the
\* output file only while _download is writing it.
C13_HandlesClosed ==
    /\ stack = <<>> => ~f.open /\ ~g.open
    /\ f.open => stack[1].kind = "upload"
    /\ g.open => stack[1].kind = "download" /\ stack[1].st = "write"

\* an upload that went through a re-authentication and whose retry failed
C13_Witness ==
    /\ call = "adicionar" /\ running = "none" /\ outcome = "HTTPError"
    /\ Len(log) = 3 /\ Failed401(log[1]) /\ log[2].ok /\ ~log[3].ok
    /\ ~f.open

\* positions of the auth requests answered with a token
Granted == {i \in DOMAIN log : log[i].kind = "auth" /\ log[i].ok}

\* the token most recently obtained before exchange j was sent
TokenBefore(j) ==
    LET before == {i \in Granted : i < j}
    IN  IF before = {}
        THEN server.token - Cardinality(Granted)
        ELSE log[CHOOSE i \in before : \A k \in before : k <= i].reply[1]

\* C14: every request sent once a token has been obtained carries the most
\* recently obtained token, the retried request included; a token that has
\* been replaced is not sent again.
C14_NewestTokenSent ==
    \A j \in DOMAIN log :
        /\ TokenBefore(j) > 0 =>
            log[j].headers = {<<"Authorization", <<"Bearer", TokenBefore(j)>>>>}
        /\ \A i \in Granted :
            i < j => \A t \in 1..(log[i].reply[1] - 1) :
                log[j].headers # {<<"Authorization", <<"Bearer", t>>>>}

\* a start request retried after a re-authentication, with the new token
C14_Witness ==
    /\ call = "nova_tarefa" /\ Len(log) = 3
    /\ Failed401(log[1]) /\ log[2].ok /\ log[3].ok
    /\ log[3].headers = {<<"Authorization", <<"Bearer", log[2].reply[1]>>>>}
    /\ log[3].headers # log[1].headers

\* the step sent a request and got its answer
Exchanged == Len(log') = Len(log) + 1

\* C15: the file list changes in two ways only: _nova_tarefa empties it for
\* a new task, and an upload answered 2xx appends one record at the end, the
\* file name of that answer with the local path; an upload that fails
\* leaves it as it was.
C15_AppendOnly ==
    [][/\ arquivos' # arquivos =>
            \/ /\ arquivos' = <<>>
               /\ stack' # <<>> /\ stack'[1].kind = "start" /\ stack = <<>>
            \/ /\ Exchanged
               /\ log'[Len(log')].kind = "upload" /\ log'[Len(log')].ok
       /\ (Exchanged /\ log'[Len(log')].kind = "upload" /\ log'[Len(log')].ok) =>
            arquivos' = Append(arquivos,
                               [server_filename |-> log'[Len(log')].reply[1],
                                filename |-> args.input])
       /\ (Exchanged /\ ~log'[Len(log')].ok) => arquivos' = arquivos]_vars

\* a direct upload has appended its record
C15_Witness ==
    /\ call = "adicionar" /\ running = "none" /\ outcome = "ok"
    /\ Len(arquivos) = 1
    /\ arquivos[1] = [server_filename |-> Last.reply[1], filename |-> args.input]

\* C16: between calls, the tool name the session holds is the one its task
\* id was started with, and a process request names the tool of the task it
\* names.
C16_TaskFieldsTogether ==
    /\ (running = "none" /\ tarefa_id # 0) =>
            tarefa_id = server.task /\ tarefa = server.tool
    /\ \A i \in DOMAIN log :
            (log[i].kind = "process" /\ log[i].task = server.task)
                => log[i].tool = server.tool

\* C17: every record of the file list names a file the server accepted for
\* the session's current task id at the session's current server URL.
C17_FilesOfCurrentTask ==
    \A i \in DOMAIN arquivos :
        \E k \in DOMAIN server.held :
            /\ server.held[k].file = arquivos[i].server_filename
            /\ server.held[k].task = tarefa_id
            /\ server.held[k].url = servidor_url \o <<"/upload">>

\* a comprimir that failed after its upload: the record stays in the list
C17_Witness ==
    /\ call = "comprimir" /\ running = "none" /\ outcome \in Errors
    /\ Len(arquivos) = 1 /\ nOps = 2

\* C18: the output file is open only after the download request has been
\* answered 2xx; the disk changes only then; a download request that fails
\* changes nothing on disk and opens nothing.
C18_WriteAfterDownload ==
    /\ [](g.open => log # <<>> /\ Last.kind = "download" /\ Last.ok /\ Last.depth = 1)
    /\ [][/\ disk' # disk =>
                /\ log' # <<>>
                /\ log'[Len(log')].kind = "download" /\ log'[Len(log')].ok
          /\ (Exchanged /\ ~log'[Len(log')].ok) => disk' = disk /\ ~g'.open]_vars

\* a direct _download whose request failed: the output path does not exist
C18_Witness ==
    /\ call = "download" /\ running = "none" /\ outcome = "HTTPError"
    /\ Last.kind = "download" /\ ~Last.ok
    /\ \A o \in OutputArgs : o \notin DOMAIN disk

\* the request whose 401 answer started the re-authentication that the
\* last exchange belongs to
Trigger ==
    LET asked == {j \in DOMAIN log :
                    Failed401(log[j]) /\ log[j].depth = Last.depth - 1}
    IN CHOOSE j \in asked : \A k \in asked : k <= j

\* C19: when a call has ended in the error of a re-authentication, the
\* header is the one the session held when that re-authentication began,
\* the one sent with the request that was answered 401.
C19_FailedReauthKeepsHeader ==
    (/\ running = "none" /\ outcome \in RequestErrors
     /\ log # <<>> /\ Last.kind = "auth" /\ ~Last.ok /\ Last.depth > 1)
        => headers = log[Trigger].headers

\* each step by itself: the header is empty until the first token is
\* obtained and from then on Bearer <t> for a token t the auth endpoint
\* returned; it changes only in the step that takes a 2xx auth answer, to that
\* answer's token, and an auth request that fails leaves it as it was.
HeaderOnlyFromAuth ==
    /\ [](\/ headers = {} /\ server.token = 0
          \/ \E t \in 1..server.token : headers = {<<"Authorization", <<"Bearer", t>>>>})
    /\ [][/\ headers' # headers =>
                /\ Exchanged
                /\ log'[Len(log')].kind = "auth" /\ log'[Len(log')].ok
                /\ headers' = {<<"Authorization", <<"Bearer", log'[Len(log')].reply[1]>>>>}
          /\ (Exchanged /\ log'[Len(log')].kind = "auth" /\ ~log'[Len(log')].ok)
                => headers' = headers]_vars

====
